---- MODULE Spec2Model ----
(***************************************************************************)
(* ScenarioManager of the planning module (scenario_manager.cc): the       *)
(* per-cycle arbitration of the active driving scenario.                   *)
(*                                                                         *)
(* One planning cycle is  Receive (the frame of the cycle is built)  ->    *)
(* Update (ScenarioManager::Update on that frame)  ->  Process (the active *)
(* scenario executes the cycle).  Arc-length positions and times are       *)
(* integers; only their order and differences are read by the code.        *)
(***************************************************************************)
EXTENDS Integers, Sequences, FiniteSets, TLC

VARIABLES
    FLAGS,                \* the gflags read by the manager
    supported_scenarios_, \* ScenarioManager::supported_scenarios_
    current_scenario_,    \* ScenarioManager::current_scenario_ (or NoScenario)
    scenario_info,        \* PlanningContext::GetScenarioInfo()
    alive,                \* FALSE once a CHECK failed or a null pointer was used
    pc,                   \* "idle" (between cycles) or "updated"
    frame,                \* the frame of the running cycle (or NoFrame)
    now,                  \* Clock::NowInSeconds() of the running cycle
    cycle                 \* what the last Update did (history), or NoCycle

vars == <<FLAGS, supported_scenarios_, current_scenario_, scenario_info,
          alive, pc, frame, now, cycle>>

-----------------------------------------------------------------------------
(* Bounds of the model *)

\* largest arc-length position of an overlap
MaxS == 3
\* largest arc-length position of the vehicle front edge
MaxAdc == 1
\* longest list of tracked signal overlaps
MaxTracked == 2
\* most lights in one detection message
MaxLights == 2
\* largest clock reading and message timestamp
MaxClock == 3

-----------------------------------------------------------------------------
(* ScenarioConfig::ScenarioType, in the order of the enumeration *)

LANE_FOLLOW == "LANE_FOLLOW"
CHANGE_LANE == "CHANGE_LANE"
SIDE_PASS == "SIDE_PASS"
APPROACH == "APPROACH"
STOP_SIGN_PROTECTED == "STOP_SIGN_PROTECTED"
STOP_SIGN_UNPROTECTED == "STOP_SIGN_UNPROTECTED"
TRAFFIC_LIGHT_PROTECTED == "TRAFFIC_LIGHT_PROTECTED"
TRAFFIC_LIGHT_UNPROTECTED_LEFT_TURN == "TRAFFIC_LIGHT_UNPROTECTED_LEFT_TURN"
TRAFFIC_LIGHT_UNPROTECTED_RIGHT_TURN == "TRAFFIC_LIGHT_UNPROTECTED_RIGHT_TURN"

ScenarioTypeOrder ==
    << LANE_FOLLOW, CHANGE_LANE, SIDE_PASS, APPROACH, STOP_SIGN_PROTECTED,
       STOP_SIGN_UNPROTECTED, TRAFFIC_LIGHT_PROTECTED,
       TRAFFIC_LIGHT_UNPROTECTED_LEFT_TURN,
       TRAFFIC_LIGHT_UNPROTECTED_RIGHT_TURN >>

ScenarioType == { ScenarioTypeOrder[i] : i \in 1..Len(ScenarioTypeOrder) }

\* Scenario::ScenarioStatus as the manager observes it
STATUS_RUNNING == "RUNNING"
STATUS_DONE == "DONE"

\* ReferenceLineInfo::OverlapType
OBSTACLE == "OBSTACLE"
SIGNAL == "SIGNAL"
STOP_SIGN == "STOP_SIGN"

\* hdmap::Lane turn types
NO_TURN == "NO_TURN"
LEFT_TURN == "LEFT_TURN"
RIGHT_TURN == "RIGHT_TURN"

\* a null std::unique_ptr<Scenario>
NoScenario == [nullptr |-> TRUE]
\* no frame is being processed
NoFrame == [reference_line_info |-> "none"]
\* no cycle has been recorded
NoCycle == [completed |-> "none"]
\* frame.local_view().traffic_light == nullptr
NoDetection == [nullptr |-> TRUE]
\* no scenario type was resolved
NoType == "none"

-----------------------------------------------------------------------------
(* Configuration read by the selection rules *)

\* config_map_[STOP_SIGN_UNPROTECTED].stop_sign_unprotected_config()
\*     .start_stop_sign_scenario_distance()
start_stop_sign_scenario_distance == 2

\* config_map_[TRAFFIC_LIGHT_PROTECTED]
\*     .traffic_light_unprotected_right_turn_config().max_valid_stop_distance()
max_valid_stop_distance == 1

\* ScenarioManager::signal_expire_time_sec_
signal_expire_time_sec_ == 1

-----------------------------------------------------------------------------
(* Scenario factory *)

\* the types RegisterScenarios loads a configuration for (keys of config_map_)
RegisteredScenarios ==
    { LANE_FOLLOW, SIDE_PASS, STOP_SIGN_UNPROTECTED, TRAFFIC_LIGHT_PROTECTED,
      TRAFFIC_LIGHT_UNPROTECTED_LEFT_TURN,
      TRAFFIC_LIGHT_UNPROTECTED_RIGHT_TURN }

\* the types ScenarioManager::CreateScenario has a case for
Constructible ==
    { LANE_FOLLOW, SIDE_PASS, STOP_SIGN_UNPROTECTED, TRAFFIC_LIGHT_PROTECTED,
      TRAFFIC_LIGHT_UNPROTECTED_LEFT_TURN,
      TRAFFIC_LIGHT_UNPROTECTED_RIGHT_TURN }

\* ScenarioManager::CreateScenario: a fresh initialized scenario, which has
\* not executed a cycle yet, or nullptr
CreateScenario(scenario_type) ==
    IF scenario_type \in Constructible
    THEN [type |-> scenario_type, status |-> STATUS_RUNNING,
          processed |-> FALSE]
    ELSE NoScenario

IsStopSignScenario(scenario_type) ==
    scenario_type \in {STOP_SIGN_PROTECTED, STOP_SIGN_UNPROTECTED}

IsTrafficLightScenario(scenario_type) ==
    scenario_type \in { TRAFFIC_LIGHT_PROTECTED,
                        TRAFFIC_LIGHT_UNPROTECTED_LEFT_TURN,
                        TRAFFIC_LIGHT_UNPROTECTED_RIGHT_TURN }

-----------------------------------------------------------------------------
(* Overlaps of a reference line *)

PathOverlap(id, s) == [object_id |-> id, start_s |-> s, end_s |-> s + 1]

\* a default-constructed hdmap::PathOverlap
DefaultPathOverlap == [object_id |-> "", start_s |-> 0, end_s |-> 0]

\* the first entry of category cat in FirstEncounteredOverlaps(), as an
\* index into the vector (0: there is none)
RECURSIVE FirstOverlapIndex(_, _, _)
FirstOverlapIndex(overlaps, cat, i) ==
    IF i > Len(overlaps) THEN 0
    ELSE IF overlaps[i].first = cat THEN i
    ELSE FirstOverlapIndex(overlaps, cat, i + 1)


-----------------------------------------------------------------------------
(* Scenario::IsTransferable is implemented by each scenario class; the     *)
(* frame of the cycle carries its answers.                                 *)

\* scenario->IsTransferable(*current_scenario_, frame) on a fresh scenario
\* of type scenario_type
IsTransferable(scenario_type, fr) == scenario_type \in fr.transferable

\* current_scenario_->IsTransferable(*current_scenario_, frame)
ReuseCurrentScenario(fr) == fr.self_transferable

-----------------------------------------------------------------------------
(* Dispatch strategy *)

\* SelectChangeLaneScenario with the multi-line branch filled in
SelectChangeLaneScenarioOnTwoLines(fr) ==
    IF Len(fr.reference_line_info) > 1 THEN CHANGE_LANE ELSE LANE_FOLLOW

SelectChangeLaneScenario(fr) ==
    IF Len(fr.reference_line_info) > 1 THEN LANE_FOLLOW ELSE LANE_FOLLOW

\* StopSignInRange with a strict upper test
StopSignInRangeStrict(adc_distance_to_stop_sign) ==
    /\ adc_distance_to_stop_sign > 0
    /\ adc_distance_to_stop_sign < start_stop_sign_scenario_distance

\* bool stop_sign of SelectStopSignScenario
StopSignInRange(adc_distance_to_stop_sign) ==
    /\ adc_distance_to_stop_sign > 0
    /\ adc_distance_to_stop_sign <= start_stop_sign_scenario_distance

SelectStopSignScenario(cur, fr, first_encountered_stop_sign_overlap) ==
    LET reference_line_info == fr.reference_line_info[1]
        adc_front_edge_s == reference_line_info.adc_end_s
        adc_distance_to_stop_sign ==
            first_encountered_stop_sign_overlap.start_s - adc_front_edge_s
        stop_sign == StopSignInRange(adc_distance_to_stop_sign)
        stop_sign_all_way == FALSE
    IN  CASE cur.type \in {LANE_FOLLOW, CHANGE_LANE, SIDE_PASS, APPROACH}
               /\ stop_sign ->
               IF stop_sign_all_way THEN STOP_SIGN_PROTECTED
               ELSE STOP_SIGN_UNPROTECTED
          [] IsStopSignScenario(cur.type) /\ cur.status = STATUS_DONE ->
               LANE_FOLLOW
          [] OTHER -> cur.type

\* the test on one tracked overlap in SelectTrafficLightScenario
StopLineInRange(adc_distance_to_stop_line) ==
    adc_distance_to_stop_line <= max_valid_stop_distance

\* TrafficLightTypeOfTurn with the two turn tests exchanged
TrafficLightTypeOfTurnExchanged(turn) ==
    IF turn = LEFT_TURN THEN TRAFFIC_LIGHT_UNPROTECTED_RIGHT_TURN
    ELSE IF turn = RIGHT_TURN THEN TRAFFIC_LIGHT_PROTECTED
    ELSE TRAFFIC_LIGHT_PROTECTED

\* the turn classification of SelectTrafficLightScenario
TrafficLightTypeOfTurn(turn) ==
    IF turn = RIGHT_TURN THEN TRAFFIC_LIGHT_UNPROTECTED_RIGHT_TURN
    ELSE IF turn = LEFT_TURN THEN TRAFFIC_LIGHT_PROTECTED
    ELSE TRAFFIC_LIGHT_PROTECTED

\* the loop of SelectTrafficLightScenario from the i-th tracked overlap on
RECURSIVE TrafficLightLoop(_, _, _, _)
TrafficLightLoop(cur, fr, tracked, i) ==
    IF i > Len(tracked) THEN cur.type
    ELSE
      LET reference_line_info == fr.reference_line_info[1]
          adc_distance_to_stop_line ==
              tracked[i].start_s - reference_line_info.adc_end_s
      IN  CASE cur.type \in {LANE_FOLLOW, CHANGE_LANE, SIDE_PASS, APPROACH}
                 /\ StopLineInRange(adc_distance_to_stop_line) ->
                 TrafficLightTypeOfTurn(reference_line_info.path_turn_type)
            [] IsTrafficLightScenario(cur.type)
                 /\ cur.status = STATUS_DONE -> LANE_FOLLOW
            [] OTHER -> TrafficLightLoop(cur, fr, tracked, i + 1)

SelectTrafficLightScenario(cur, fr, info) ==
    TrafficLightLoop(cur, fr, info.current_traffic_light_overlaps, 1)

\* SelectSidePassScenario without the test on the active scenario
SelectSidePassScenarioNoReuse(cur, fr) ==
    IF IsTransferable(SIDE_PASS, fr)
    THEN [type |-> SIDE_PASS, trial |-> TRUE]
    ELSE [type |-> LANE_FOLLOW, trial |-> TRUE]

\* SelectSidePassScenario: the type, and whether a trial scenario was built
SelectSidePassScenario(cur, fr) ==
    IF cur.type = SIDE_PASS /\ ReuseCurrentScenario(fr)
    THEN [type |-> SIDE_PASS, trial |-> FALSE]
    ELSE IF IsTransferable(SIDE_PASS, fr)
    THEN [type |-> SIDE_PASS, trial |-> TRUE]
    ELSE [type |-> LANE_FOLLOW, trial |-> TRUE]

\* StickyScenarioType without the SIDE_PASS case
StickyScenarioTypeNoSidePass(cur) ==
    IF /\ \/ IsStopSignScenario(cur.type)
          \/ IsTrafficLightScenario(cur.type)
       /\ cur.status # STATUS_DONE
    THEN cur.type
    ELSE LANE_FOLLOW

\* "check current_scenario (not switchable)" of ScenarioDispatch
StickyScenarioType(cur) ==
    IF /\ \/ cur.type = SIDE_PASS
          \/ IsStopSignScenario(cur.type)
          \/ IsTrafficLightScenario(cur.type)
       /\ cur.status # STATUS_DONE
    THEN cur.type
    ELSE LANE_FOLLOW

\* StopSignFound with the stop sign winning a tie
StopSignFoundOnTie(overlaps) ==
    LET si == FirstOverlapIndex(overlaps, STOP_SIGN, 1)
        ti == FirstOverlapIndex(overlaps, SIGNAL, 1)
    IN  IF si # 0 /\ ti # 0
        THEN overlaps[si].second.start_s <= overlaps[ti].second.start_s
        ELSE si # 0

\* stop_sign_found of ScenarioDispatch
StopSignFound(overlaps) ==
    LET si == FirstOverlapIndex(overlaps, STOP_SIGN, 1)
        ti == FirstOverlapIndex(overlaps, SIGNAL, 1)
    IN  IF si # 0 /\ ti # 0
        THEN overlaps[si].second.start_s < overlaps[ti].second.start_s
        ELSE si # 0

\* traffic_light_found of ScenarioDispatch
TrafficLightFound(overlaps) ==
    LET si == FirstOverlapIndex(overlaps, STOP_SIGN, 1)
        ti == FirstOverlapIndex(overlaps, SIGNAL, 1)
    IN  IF si # 0 /\ ti # 0
        THEN ~(overlaps[si].second.start_s < overlaps[ti].second.start_s)
        ELSE ti # 0

\* "intersection scenarios" of ScenarioDispatch, entered with LANE_FOLLOW
IntersectionScenarioType(cur, fr, info, flags) ==
    LET overlaps == fr.reference_line_info[1].first_encountered_overlaps
        si == FirstOverlapIndex(overlaps, STOP_SIGN, 1)
    IN  IF StopSignFound(overlaps)
        THEN IF flags.enable_scenario_stop_sign
             THEN SelectStopSignScenario(cur, fr, overlaps[si].second)
             ELSE LANE_FOLLOW
        ELSE IF TrafficLightFound(overlaps)
        THEN IF flags.enable_scenario_traffic_light
             THEN SelectTrafficLightScenario(cur, fr, info)
             ELSE LANE_FOLLOW
        ELSE LANE_FOLLOW

\* the scenario type ScenarioDispatch resolves to, and whether a trial
\* SIDE_PASS scenario was built on the way
DispatchScenarioType(cur, fr, info, flags) ==
    LET sticky == StickyScenarioType(cur)
        intersection ==
            IF sticky = LANE_FOLLOW
            THEN IntersectionScenarioType(cur, fr, info, flags)
            ELSE sticky
        change_lane ==
            IF intersection = LANE_FOLLOW
            THEN SelectChangeLaneScenario(fr)
            ELSE intersection
    IN  IF change_lane = LANE_FOLLOW
        THEN SelectSidePassScenario(cur, fr)
        ELSE [type |-> change_lane, trial |-> FALSE]

-----------------------------------------------------------------------------
(* Shared-context bookkeeping *)

\* FindOverlapById answering with the first entry of the list
FindOverlapByIdFirst(overlaps, id, i) ==
    IF i > Len(overlaps) THEN 0 ELSE i

\* std::find_if over stop_sign_overlaps by object id (0: not found)
RECURSIVE FindOverlapById(_, _, _)
FindOverlapById(overlaps, id, i) ==
    IF i > Len(overlaps) THEN 0
    ELSE IF overlaps[i].object_id = id THEN i
    ELSE FindOverlapById(overlaps, id, i + 1)

UpdatePlanningContext(info, cur, fr, scenario_type) ==
    LET reference_line_info == fr.reference_line_info[1]
    IN  IF ~IsStopSignScenario(scenario_type)
           /\ ~IsTrafficLightScenario(scenario_type)
        THEN [info EXCEPT !.stop_done_overlap_ids = {}]
        ELSE IF IsStopSignScenario(scenario_type)
        THEN IF scenario_type # cur.type
             THEN LET overlaps == reference_line_info.first_encountered_overlaps
                      si == FirstOverlapIndex(overlaps, STOP_SIGN, 1)
                  IN  IF si # 0
                      THEN [info EXCEPT !.current_stop_sign_overlap =
                                            overlaps[si].second]
                      ELSE info
             ELSE LET stop_sign_overlaps ==
                          reference_line_info.stop_sign_overlaps
                      itr == FindOverlapById(
                                 stop_sign_overlaps,
                                 info.current_stop_sign_overlap.object_id, 1)
                  IN  IF itr # 0
                      THEN [info EXCEPT !.current_stop_sign_overlap =
                                            stop_sign_overlaps[itr]]
                      ELSE info
        ELSE info

-----------------------------------------------------------------------------
(* Observe *)

\* the expiry test of ReadTrafficLight on delay = timestamp - now
SignalExpired(timestamp_sec, clock) ==
    timestamp_sec - clock > signal_expire_time_sec_

\* the map after inserting the first i lights of the message
RECURSIVE InsertLights(_, _)
InsertLights(lights, i) ==
    IF i = 0 THEN << >>
    ELSE LET m == InsertLights(lights, i - 1)
         IN  [k \in (DOMAIN m) \cup {lights[i].id} |->
                 IF k = lights[i].id THEN lights[i].color ELSE m[k]]

\* ReadTrafficLight inserting into the map of the cycle before
ReadTrafficLightNoClear(info, fr, clock) ==
    LET traffic_light_detection == fr.traffic_light
    IN  IF traffic_light_detection = NoDetection
        THEN info
        ELSE IF SignalExpired(traffic_light_detection.timestamp_sec, clock)
        THEN info
        ELSE LET m == InsertLights(traffic_light_detection.traffic_light,
                                   Len(traffic_light_detection.traffic_light))
                 old == info.traffic_lights
             IN  [info EXCEPT !.traffic_lights =
                     [k \in (DOMAIN old) \cup (DOMAIN m) |->
                         IF k \in DOMAIN m THEN m[k] ELSE old[k]]]

ReadTrafficLight(info, fr, clock) ==
    LET traffic_light_detection == fr.traffic_light
    IN  IF traffic_light_detection = NoDetection
        THEN [info EXCEPT !.traffic_lights = << >>]
        ELSE IF SignalExpired(traffic_light_detection.timestamp_sec, clock)
        THEN [info EXCEPT !.traffic_lights = << >>]
        ELSE [info EXCEPT !.traffic_lights =
                 InsertLights(traffic_light_detection.traffic_light,
                              Len(traffic_light_detection.traffic_light))]

Observe(info, fr, clock) == ReadTrafficLight(info, fr, clock)

-----------------------------------------------------------------------------
(* Self-vote strategy *)

\* The outcomes of calling a member function through the null pointer that
\* CreateScenario returns for a type it has no case for: the process dies,
\* or the call "returns" either answer.
NullCallOutcomes == {"crash", "true", "false"}

\* ScenarioManager::SelectScenario within the walk state st; ub gives the
\* outcome of a call through a null scenario, per type
SelectScenario(st, type, fr, ub) ==
    IF st.current.type = type
    THEN [st EXCEPT !.decided = TRUE]
    ELSE
      LET scenario == CreateScenario(type)
          probed == [st EXCEPT !.probes = Append(@, type)]
      IN  IF scenario = NoScenario
          THEN CASE ub[type] = "crash" -> [probed EXCEPT !.crashed = TRUE]
                 [] ub[type] = "true" ->
                      [probed EXCEPT !.current = NoScenario,
                                     !.replaced = TRUE, !.decided = TRUE]
                 [] OTHER -> [probed EXCEPT !.rejected = @ \cup {type}]
          ELSE IF IsTransferable(type, fr)
          THEN [probed EXCEPT !.current = scenario,
                              !.replaced = TRUE, !.decided = TRUE]
          ELSE [probed EXCEPT !.rejected = @ \cup {type}]

\* preferred_scenarios of ScenarioSelfVote
RECURSIVE PreferredOfOverlaps(_, _)
PreferredOfOverlaps(overlaps, i) ==
    IF i > Len(overlaps) THEN << >>
    ELSE (CASE overlaps[i].first = OBSTACLE -> << SIDE_PASS >>
            [] overlaps[i].first = STOP_SIGN -> << STOP_SIGN_UNPROTECTED >>
            [] overlaps[i].first = SIGNAL ->
                 << TRAFFIC_LIGHT_PROTECTED,
                    TRAFFIC_LIGHT_UNPROTECTED_LEFT_TURN,
                    TRAFFIC_LIGHT_UNPROTECTED_RIGHT_TURN >>
            [] OTHER -> << >>)
         \o PreferredOfOverlaps(overlaps, i + 1)

\* PreferredScenarios with the default type tried last
PreferredScenariosDefaultLast(overlaps) ==
    PreferredOfOverlaps(overlaps, 1) \o << LANE_FOLLOW >>

PreferredScenarios(overlaps) ==
    << LANE_FOLLOW >> \o PreferredOfOverlaps(overlaps, 1)

\* the first loop of ScenarioSelfVote, from the i-th preferred scenario on
RECURSIVE WalkPreferred(_, _, _, _, _, _)
WalkPreferred(st, preferred, i, supported, fr, ub) ==
    IF i > Len(preferred) \/ st.decided \/ st.crashed THEN st
    ELSE IF preferred[i] \in st.rejected \/ preferred[i] \notin supported
    THEN WalkPreferred(st, preferred, i + 1, supported, fr, ub)
    ELSE WalkPreferred(SelectScenario(st, preferred[i], fr, ub),
                       preferred, i + 1, supported, fr, ub)

\* the feature-flag test of the second loop of ScenarioSelfVote
DisabledByFlag(scenario, flags) ==
    \/ ~flags.enable_scenario_side_pass /\ scenario = SIDE_PASS
    \/ ~flags.enable_scenario_stop_sign /\ scenario = STOP_SIGN_UNPROTECTED
    \/ ~flags.enable_scenario_traffic_light
         /\ IsTrafficLightScenario(scenario)

\* the second loop of ScenarioSelfVote: supported_scenarios_ in the order
\* of the std::set, from the i-th type of the enumeration on
RECURSIVE WalkSupported(_, _, _, _, _, _)
WalkSupported(st, i, supported, flags, fr, ub) ==
    IF i > Len(ScenarioTypeOrder) \/ st.decided \/ st.crashed THEN st
    ELSE
      LET scenario == ScenarioTypeOrder[i]
      IN  IF \/ scenario \notin supported
             \/ scenario \in st.rejected
             \/ DisabledByFlag(scenario, flags)
          THEN WalkSupported(st, i + 1, supported, flags, fr, ub)
          ELSE WalkSupported(SelectScenario(st, scenario, fr, ub),
                             i + 1, supported, flags, fr, ub)

\* UseDefaultScenario leaving whatever scenario is active in place
UseDefaultScenarioKeepsActive(st, default_type) ==
    IF st.decided \/ st.crashed THEN st
    ELSE [st EXCEPT !.decided = TRUE, !.forced = TRUE]

\* "finally use default transferrable scenario"
UseDefaultScenario(st, default_scenario_type_) ==
    IF st.decided \/ st.crashed THEN st
    ELSE IF st.current.type # default_scenario_type_
    THEN [st EXCEPT !.current = CreateScenario(default_scenario_type_),
                    !.replaced = TRUE, !.decided = TRUE, !.forced = TRUE]
    ELSE [st EXCEPT !.decided = TRUE, !.forced = TRUE]

default_scenario_type_ == LANE_FOLLOW

\* ScenarioSelfVote after the reuse test failed or was skipped
SelfVoteWalk(st, supported, flags, fr, ub) ==
    LET overlaps == fr.reference_line_info[1].first_encountered_overlaps
    IN  UseDefaultScenario(
            WalkSupported(
                WalkPreferred(st, PreferredScenarios(overlaps), 1,
                              supported, fr, ub),
                1, supported, flags, fr, ub),
            default_scenario_type_)

\* ScenarioSelfVote without the early return on a reusable scenario
ScenarioSelfVoteNoReuse(cur, supported, flags, fr, ub) ==
    LET asked == cur.type # default_scenario_type_
        st0 == [current |-> cur, rejected |-> {cur.type},
                probes |-> IF asked THEN << cur.type >> ELSE << >>,
                decided |-> FALSE, crashed |-> FALSE, replaced |-> FALSE,
                forced |-> FALSE, reused |-> FALSE]
    IN  SelfVoteWalk(st0, supported, flags, fr, ub)

\* ScenarioSelfVote: the walk state at its return
ScenarioSelfVote(cur, supported, flags, fr, ub) ==
    LET asked == cur.type # default_scenario_type_
        st0 == [current |-> cur, rejected |-> {},
                probes |-> IF asked THEN << cur.type >> ELSE << >>,
                decided |-> FALSE, crashed |-> FALSE, replaced |-> FALSE,
                forced |-> FALSE, reused |-> FALSE]
    IN  IF asked /\ ReuseCurrentScenario(fr)
        THEN [st0 EXCEPT !.decided = TRUE, !.reused = TRUE]
        ELSE SelfVoteWalk([st0 EXCEPT !.rejected = {cur.type}],
                          supported, flags, fr, ub)

-----------------------------------------------------------------------------
(* ScenarioManager::Update *)

\* the record of a cycle kept for the properties below
CycleRecord(cur, info, completed, resolved, replaced, probes, trial) ==
    [pre |-> cur, pre_info |-> info, completed |-> completed,
     resolved |-> resolved, replaced |-> replaced, probes |-> probes,
     trial |-> trial]

\* ScenarioDispatch constructing a scenario whether or not the type changed
ScenarioDispatchAlwaysCreates(cur, info0, observed, flags, fr) ==
    LET d == DispatchScenarioType(cur, fr, observed, flags)
        info == UpdatePlanningContext(observed, cur, fr, d.type)
    IN  [alive |-> TRUE,
         current |-> CreateScenario(d.type),
         info |-> info,
         cycle |-> CycleRecord(cur, info0, TRUE, d.type, TRUE,
                               IF d.trial THEN << SIDE_PASS >> ELSE << >>,
                               d.trial)]

\* ScenarioDispatch after Observe
ScenarioDispatch(cur, info0, observed, flags, fr) ==
    LET d == DispatchScenarioType(cur, fr, observed, flags)
        info == UpdatePlanningContext(observed, cur, fr, d.type)
        replaced == cur.type # d.type
    IN  [alive |-> TRUE,
         current |-> IF replaced THEN CreateScenario(d.type) ELSE cur,
         info |-> info,
         cycle |-> CycleRecord(cur, info0, TRUE, d.type, replaced,
                               IF d.trial THEN << SIDE_PASS >> ELSE << >>,
                               d.trial)]

\* ScenarioSelfVote after Observe
SelfVote(cur, info0, observed, supported, flags, fr, ub) ==
    LET st == ScenarioSelfVote(cur, supported, flags, fr, ub)
    IN  [alive |-> ~st.crashed,
         current |-> st.current,
         info |-> observed,
         cycle |-> CycleRecord(cur, info0, ~st.crashed,
                               IF st.crashed \/ st.current = NoScenario
                               THEN NoType ELSE st.current.type,
                               st.replaced, st.probes, FALSE)]

\* ManagerUpdate with Observe ahead of the reference-line CHECK
ManagerUpdateObservesFirst(cur, info, supported, flags, fr, clock, ub) ==
    LET observed == Observe(info, fr, clock)
    IN  IF Len(fr.reference_line_info) = 0
        THEN [alive |-> FALSE, current |-> cur, info |-> observed,
              cycle |-> CycleRecord(cur, info, FALSE, NoType, FALSE, << >>,
                                    FALSE)]
        ELSE IF cur = NoScenario
        THEN [alive |-> FALSE, current |-> cur, info |-> observed,
              cycle |-> CycleRecord(cur, info, FALSE, NoType, FALSE,
                                    << >>, FALSE)]
        ELSE IF flags.enable_scenario_dispatcher
        THEN ScenarioDispatch(cur, info, observed, flags, fr)
        ELSE SelfVote(cur, info, observed, supported, flags, fr, ub)

\* ScenarioManager::Update on frame fr at clock reading clock
ManagerUpdate(cur, info, supported, flags, fr, clock, ub) ==
    IF Len(fr.reference_line_info) = 0
    THEN \* CHECK(!frame.reference_line_info().empty()) fails
         [alive |-> FALSE, current |-> cur, info |-> info,
          cycle |-> CycleRecord(cur, info, FALSE, NoType, FALSE, << >>,
                                FALSE)]
    ELSE
      LET observed == Observe(info, fr, clock)
      IN  IF cur = NoScenario
          THEN \* current_scenario_ is null: the first use of it crashes
               [alive |-> FALSE, current |-> cur, info |-> observed,
                cycle |-> CycleRecord(cur, info, FALSE, NoType, FALSE,
                                      << >>, FALSE)]
          ELSE IF flags.enable_scenario_dispatcher
          THEN ScenarioDispatch(cur, info, observed, flags, fr)
          ELSE SelfVote(cur, info, observed, supported, flags, fr, ub)

-----------------------------------------------------------------------------
(* Inputs *)

Flags(dispatcher, side_pass, stop_sign, traffic_light) ==
    [enable_scenario_dispatcher |-> dispatcher,
     enable_scenario_side_pass |-> side_pass,
     enable_scenario_stop_sign |-> stop_sign,
     enable_scenario_traffic_light |-> traffic_light]

Config(flags, supported) == [flags |-> flags, supported |-> supported]

\* the supported-scenario sets given to Init
SupportedSets ==
    { {},
      {LANE_FOLLOW, SIDE_PASS, STOP_SIGN_UNPROTECTED},
      {SIDE_PASS, TRAFFIC_LIGHT_PROTECTED,
       TRAFFIC_LIGHT_UNPROTECTED_RIGHT_TURN},
      {LANE_FOLLOW, CHANGE_LANE, SIDE_PASS} }

\* Dispatch: the supported set is not read
DispatchConfigs ==
    { Config(Flags(TRUE, sp, ss, tl), {LANE_FOLLOW, STOP_SIGN_UNPROTECTED}) :
        sp \in BOOLEAN, ss \in BOOLEAN, tl \in BOOLEAN }

SelfVoteConfigs ==
    { Config(Flags(FALSE, sp, ss, tl), supported) :
        sp \in BOOLEAN, ss \in BOOLEAN, tl \in BOOLEAN,
        supported \in SupportedSets }

Entry(cat, overlap) == [first |-> cat, second |-> overlap]

\* stop signs s1 and s2 of the map
StopOverlaps ==
    { PathOverlap("s1", s) : s \in 0..MaxS } \cup { PathOverlap("s2", MaxS) }

\* signals t1 and t2 of the map
SignalOverlaps == { PathOverlap("t1", 1), PathOverlap("t2", MaxS) }

ObstacleOverlaps == { PathOverlap("o1", 1) }

TurnTypes == {NO_TURN, LEFT_TURN, RIGHT_TURN}

ReferenceLine(adc, overlaps, turn, stop_signs) ==
    [adc_end_s |-> adc, first_encountered_overlaps |-> overlaps,
     path_turn_type |-> turn, stop_sign_overlaps |-> stop_signs]

\* first-encountered overlaps for the rules that read positions: a stop
\* sign and the signal t1, each present or not
GeometryOverlapSeqs ==
    { << >>, << Entry(SIGNAL, PathOverlap("t1", 1)) >> }
      \cup { << Entry(STOP_SIGN, o) >> : o \in StopOverlaps }
      \cup { << Entry(STOP_SIGN, o), Entry(SIGNAL, PathOverlap("t1", 1)) >> :
               o \in StopOverlaps }

GeometryLines ==
    { ReferenceLine(adc, q, turn, << >>) :
        adc \in 0..MaxAdc, q \in GeometryOverlapSeqs, turn \in TurnTypes }

\* reference lines whose map path lists stop signs
StopSignLines ==
    { ReferenceLine(0, << >>, NO_TURN, << o >>) : o \in StopOverlaps }
      \cup { ReferenceLine(0, << >>, NO_TURN,
                           << PathOverlap("s2", MaxS), o >>) :
               o \in StopOverlaps }

\* first-encountered overlaps for the rules that read categories and their
\* order: every sequence of distinct categories
CategoryEntries ==
    { Entry(STOP_SIGN, PathOverlap("s1", 1)),
      Entry(SIGNAL, PathOverlap("t1", 1)),
      Entry(OBSTACLE, PathOverlap("o1", 1)) }

CategoryOverlapSeqs ==
    { q \in UNION { [1..n -> CategoryEntries] : n \in 0..3 } :
        \A i, j \in DOMAIN q : i # j => q[i].first # q[j].first }

CategoryLines ==
    { ReferenceLine(0, q, NO_TURN, << >>) : q \in CategoryOverlapSeqs }

Colors == {"RED", "GREEN"}

LightIds == {"l1", "l2"}

Lights == [id : LightIds, color : Colors]

LightLists == UNION { [1..n -> Lights] : n \in 0..MaxLights }

Detection(timestamp_sec, lights) ==
    [timestamp_sec |-> timestamp_sec, traffic_light |-> lights]

Detections ==
    {NoDetection}
      \cup { Detection(t, l) : t \in 0..MaxClock, l \in LightLists }

\* the lists of tracked signal overlaps found in the planning context
TrackedLists ==
    { q \in UNION { [1..n -> SignalOverlaps] : n \in 0..MaxTracked } :
        \A i, j \in DOMAIN q : i # j => q[i] # q[j] }

MakeFrame(lines, detection) ==
    [reference_line_info |-> lines, traffic_light |-> detection,
     transferable |-> {}, self_transferable |-> FALSE]

\* a frame without reference lines, and a frame with two
OtherLineLists ==
    { << >>,
      << ReferenceLine(0, << >>, NO_TURN, << >>),
         ReferenceLine(0, << >>, NO_TURN, << >>) >> }

\* frames that vary the positions the Dispatch rules read
GeometryFrames ==
    { MakeFrame(lines, NoDetection) :
        lines \in { << rl >> : rl \in GeometryLines \cup StopSignLines }
                    \cup OtherLineLists }

\* frames that vary the overlap categories and their order
CategoryFrames ==
    { MakeFrame(lines, NoDetection) :
        lines \in { << rl >> : rl \in CategoryLines } \cup OtherLineLists }

\* frames that vary the traffic-light detection message; some of them carry
\* no reference line
DetectionFrames ==
    { MakeFrame(<< ReferenceLine(0, << >>, NO_TURN, << >>) >>, d) :
        d \in Detections }
      \cup { MakeFrame(<< >>, d) :
               d \in { e \in Detections :
                         e # NoDetection => Len(e.traffic_light) <= 1 } }

-----------------------------------------------------------------------------
(* State machine *)

InitScenarioInfo ==
    [traffic_lights |-> << >>,
     stop_done_overlap_ids |-> {},
     current_stop_sign_overlap |-> DefaultPathOverlap,
     current_traffic_light_overlaps |-> << >>]

\* ScenarioManager::Init under the flags and supported set of a config
InitWith(configs) ==
    /\ \E c \in configs :
          /\ FLAGS = c.flags
          /\ supported_scenarios_ = c.supported
    /\ current_scenario_ = CreateScenario(default_scenario_type_)
    /\ scenario_info = InitScenarioInfo
    /\ alive = TRUE
    /\ pc = "idle"
    /\ frame = NoFrame
    /\ now = 0
    /\ cycle = NoCycle

\* the scenario types whose IsTransferable the manager can call
ProbeCandidates ==
    IF FLAGS.enable_scenario_dispatcher THEN {SIDE_PASS}
    ELSE supported_scenarios_ \cap Constructible

\* the outcomes of the calls through null scenarios in one cycle
NullCalls ==
    IF FLAGS.enable_scenario_dispatcher
    THEN { [t \in {} |-> "crash"] }
    ELSE [supported_scenarios_ \ Constructible -> NullCallOutcomes]

\* one planning cycle builds its frame, reads the clock and calls
\* ScenarioManager::Update
Update(frames, clocks) ==
    /\ pc = "idle"
    /\ alive
    /\ \E fr \in frames, tr \in SUBSET ProbeCandidates, self \in BOOLEAN,
          clock \in clocks, ub \in NullCalls :
          LET f == [fr EXCEPT !.transferable = tr,
                              !.self_transferable = self]
              r == ManagerUpdate(current_scenario_, scenario_info,
                                 supported_scenarios_, FLAGS, f, clock, ub)
          IN  /\ frame' = f
              /\ now' = clock
              /\ alive' = r.alive
              /\ current_scenario_' = r.current
              /\ scenario_info' = r.info
              /\ cycle' = r.cycle
    /\ pc' = "updated"
    /\ UNCHANGED <<FLAGS, supported_scenarios_>>

\* the overlap ids a scenario of this type records when it completes
DoneOverlapIds(cur, info) ==
    IF IsStopSignScenario(cur.type)
    THEN {info.current_stop_sign_overlap.object_id}
    ELSE IF IsTrafficLightScenario(cur.type)
    THEN { info.current_traffic_light_overlaps[i].object_id :
             i \in DOMAIN info.current_traffic_light_overlaps }
    ELSE {}

\* the active scenario executes the cycle: it may reach STATUS_DONE
Process ==
    /\ pc = "updated"
    /\ alive
    /\ IF current_scenario_ = NoScenario
       THEN /\ alive' = FALSE
            /\ UNCHANGED <<current_scenario_, scenario_info>>
       ELSE /\ alive' = alive
            /\ \E finish \in BOOLEAN :
                  IF finish /\ current_scenario_.status = STATUS_RUNNING
                  THEN /\ current_scenario_' =
                            [current_scenario_ EXCEPT !.status = STATUS_DONE,
                                                      !.processed = TRUE]
                       /\ scenario_info' =
                            [scenario_info EXCEPT !.stop_done_overlap_ids =
                                @ \cup DoneOverlapIds(current_scenario_,
                                                      scenario_info)]
                  ELSE /\ current_scenario_' =
                            [current_scenario_ EXCEPT !.processed = TRUE]
                       /\ UNCHANGED scenario_info
    /\ pc' = "idle"
    /\ frame' = NoFrame
    /\ cycle' = NoCycle
    /\ UNCHANGED <<FLAGS, supported_scenarios_, now>>

\* the signal overlaps ahead are tracked in the planning context
Track(lists) ==
    /\ pc = "idle"
    /\ alive
    /\ \E tracked \in lists :
          /\ tracked # scenario_info.current_traffic_light_overlaps
          /\ scenario_info' =
                [scenario_info EXCEPT !.current_traffic_light_overlaps =
                                         tracked]
    /\ UNCHANGED <<FLAGS, supported_scenarios_, current_scenario_, alive,
                   pc, frame, now, cycle>>

\* Either strategy, on frames that vary the overlap categories
Init == InitWith(DispatchConfigs \cup SelfVoteConfigs)

Next ==
    \/ Update(CategoryFrames, {0})
    \/ Process
    \/ Track({ q \in TrackedLists : Len(q) <= 1 })

Spec == Init /\ [][Next]_vars

\* Dispatch strategy, on frames that vary the positions
InitDispatch ==
    InitWith({ c \in DispatchConfigs : c.flags.enable_scenario_side_pass })

NextDispatch ==
    \/ Update(GeometryFrames, {0})
    \/ Process
    \/ Track(TrackedLists)

SpecDispatch == InitDispatch /\ [][NextDispatch]_vars

\* Self-vote strategy, on frames that vary the overlap categories
InitSelfVote == InitWith(SelfVoteConfigs)

NextSelfVote ==
    \/ Update(CategoryFrames, {0})
    \/ Process

SpecSelfVote == InitSelfVote /\ [][NextSelfVote]_vars

\* Either strategy, on frames that vary the detection message and the clock
InitObserve ==
    InitWith({ Config(Flags(TRUE, TRUE, TRUE, TRUE), {LANE_FOLLOW}),
               Config(Flags(FALSE, TRUE, TRUE, TRUE),
                      {LANE_FOLLOW, CHANGE_LANE}) })

NextObserve ==
    \/ Update(DetectionFrames, {0, MaxClock})
    \/ Process

SpecObserve == InitObserve /\ [][NextObserve]_vars

\* frames on which the stop sign s1 stays the first-encountered stop sign
StopSignAheadFrames ==
    { f \in GeometryFrames :
        /\ Len(f.reference_line_info) = 1
        /\ \E i \in DOMAIN f.reference_line_info[1].first_encountered_overlaps :
              LET e == f.reference_line_info[1].first_encountered_overlaps[i]
              IN  e.first = STOP_SIGN /\ e.second.object_id = "s1" }

\* Dispatch strategy, approaching and servicing one stop sign
NextStopSignAhead ==
    \/ Update(StopSignAheadFrames, {0})
    \/ Process

SpecStopSignAhead == InitDispatch /\ [][NextStopSignAhead]_vars

-----------------------------------------------------------------------------
(* Properties *)

\* an Update ran to its end in the cycle (no CHECK failed, no null call)
Updated == pc = "updated" /\ cycle.completed

\* the first reference line of the cycle's frame
FrontLine == frame.reference_line_info[1]

\* C1: after every Update on a frame with at least one reference line the
\* manager is running and holds an active scenario (refuted: the self-vote
\* walk calls IsTransferable through the null pointer CreateScenario returns
\* for a supported type it has no case for).
C1_ActiveScenarioAfterUpdate ==
    (pc = "updated" /\ Len(frame.reference_line_info) >= 1)
        => (alive /\ current_scenario_ # NoScenario)

\* the types the sticky rule of Dispatch pins
StickyTypes ==
    { SIDE_PASS, STOP_SIGN_PROTECTED, STOP_SIGN_UNPROTECTED,
      TRAFFIC_LIGHT_PROTECTED, TRAFFIC_LIGHT_UNPROTECTED_LEFT_TURN,
      TRAFFIC_LIGHT_UNPROTECTED_RIGHT_TURN }

\* C2: under Dispatch, a cycle that starts with an active scenario of a
\* sticky type whose status is not DONE resolves to that type and keeps the
\* active scenario, whatever the frame contains.
C2_StickyScenarioKept ==
    (/\ Updated
     /\ FLAGS.enable_scenario_dispatcher
     /\ cycle.pre.type \in StickyTypes
     /\ cycle.pre.status # STATUS_DONE)
        => /\ cycle.resolved = cycle.pre.type
           /\ current_scenario_ = cycle.pre
           /\ ~cycle.replaced

\* C2 witness: a running SIDE_PASS scenario is kept in a cycle whose frame
\* has a stop sign within the trigger distance
C2_Witness ==
    /\ Updated
    /\ FLAGS.enable_scenario_stop_sign
    /\ cycle.pre.type = SIDE_PASS
    /\ cycle.pre.status = STATUS_RUNNING
    /\ \E i \in DOMAIN FrontLine.first_encountered_overlaps :
          /\ FrontLine.first_encountered_overlaps[i].first = STOP_SIGN
          /\ FrontLine.first_encountered_overlaps[i].second.start_s
                - FrontLine.adc_end_s = 1
    /\ current_scenario_ = cycle.pre

\* C3: a cycle whose resolved type equals the active type keeps the active
\* scenario with its status; the active scenario changes only in a cycle
\* whose resolved type differs from the active type.
C3_ReplacedOnlyOnTypeChange ==
    Updated =>
        /\ cycle.resolved = cycle.pre.type
              => (current_scenario_ = cycle.pre /\ ~cycle.replaced)
        /\ (current_scenario_ # cycle.pre \/ cycle.replaced)
              => cycle.resolved # cycle.pre.type

\* C3 witness: a completed scenario of a non-default type is resolved again
\* and kept
C3_Witness ==
    /\ Updated
    /\ cycle.pre.type # LANE_FOLLOW
    /\ cycle.pre.status = STATUS_DONE
    /\ cycle.resolved = cycle.pre.type
    /\ current_scenario_ = cycle.pre

\* whether the front line has a first-encountered overlap of category cat
HasOverlap(cat) ==
    \E i \in DOMAIN FrontLine.first_encountered_overlaps :
        FrontLine.first_encountered_overlaps[i].first = cat

\* the first first-encountered overlap of category cat of the front line
FirstEncountered(cat) ==
    LET q == FrontLine.first_encountered_overlaps
    IN  q[CHOOSE i \in DOMAIN q :
            /\ q[i].first = cat
            /\ \A j \in 1..(i - 1) : q[j].first # cat].second

\* the tracked signal overlaps the cycle started with
Tracked == cycle.pre_info.current_traffic_light_overlaps

\* some tracked signal overlap is within max_valid_stop_distance
TrackedInRange ==
    \E i \in DOMAIN Tracked :
        Tracked[i].start_s - FrontLine.adc_end_s <= max_valid_stop_distance

\* the stop sign wins the comparison of ScenarioDispatch
StopSignWins ==
    /\ HasOverlap(STOP_SIGN)
    /\ HasOverlap(SIGNAL) =>
          FirstEncountered(STOP_SIGN).start_s
              < FirstEncountered(SIGNAL).start_s

\* distance of the first-encountered stop sign from the vehicle front edge
StopSignDistance == FirstEncountered(STOP_SIGN).start_s - FrontLine.adc_end_s

\* C4: under Dispatch with the stop-sign feature enabled, active LANE_FOLLOW
\* and a winning stop sign at distance d, the cycle resolves to
\* STOP_SIGN_UNPROTECTED iff 0 < d <= start_stop_sign_scenario_distance;
\* outside that range, with SIDE_PASS not transferable, it resolves to
\* LANE_FOLLOW.
C4_StopSignDistanceGate ==
    (/\ Updated
     /\ FLAGS.enable_scenario_dispatcher
     /\ FLAGS.enable_scenario_stop_sign
     /\ cycle.pre.type = LANE_FOLLOW
     /\ StopSignWins)
        => LET gate == /\ 0 < StopSignDistance
                       /\ StopSignDistance
                             <= start_stop_sign_scenario_distance
           IN  /\ cycle.resolved = STOP_SIGN_UNPROTECTED <=> gate
               /\ (~gate /\ SIDE_PASS \notin frame.transferable)
                     => cycle.resolved = LANE_FOLLOW

\* C4 witness: a stop sign exactly at the trigger distance is selected
C4_Witness ==
    /\ Updated
    /\ FLAGS.enable_scenario_dispatcher
    /\ FLAGS.enable_scenario_stop_sign
    /\ cycle.pre.type = LANE_FOLLOW
    /\ StopSignWins
    /\ StopSignDistance = start_stop_sign_scenario_distance
    /\ cycle.resolved = STOP_SIGN_UNPROTECTED
    /\ current_scenario_.type = STOP_SIGN_UNPROTECTED

\* C5: under Dispatch with no maneuver in progress (active LANE_FOLLOW or a
\* finished SIDE_PASS) and both a stop-sign and a signal overlap, the stop-sign rule runs only if the stop sign starts
\* strictly before the signal; on a tie or a later stop sign the
\* traffic-light rule runs and the stop-sign rule does not.
C5_TieBreak ==
    (/\ Updated
     /\ FLAGS.enable_scenario_dispatcher
     /\ \/ cycle.pre.type = LANE_FOLLOW
        \/ cycle.pre.type = SIDE_PASS /\ cycle.pre.status = STATUS_DONE
     /\ HasOverlap(STOP_SIGN)
     /\ HasOverlap(SIGNAL))
        => IF FirstEncountered(STOP_SIGN).start_s
                 < FirstEncountered(SIGNAL).start_s
           THEN /\ ~IsTrafficLightScenario(cycle.resolved)
                /\ (/\ FLAGS.enable_scenario_stop_sign
                    /\ 0 < StopSignDistance
                    /\ StopSignDistance <= start_stop_sign_scenario_distance)
                      => cycle.resolved = STOP_SIGN_UNPROTECTED
           ELSE /\ ~IsStopSignScenario(cycle.resolved)
                /\ (FLAGS.enable_scenario_traffic_light /\ TrackedInRange)
                      => IsTrafficLightScenario(cycle.resolved)

\* C5 witness: on a tie, with the stop sign within its trigger distance, the
\* cycle resolves to a traffic-light scenario
C5_Witness ==
    /\ Updated
    /\ FLAGS.enable_scenario_dispatcher
    /\ FLAGS.enable_scenario_stop_sign
    /\ cycle.pre.type = LANE_FOLLOW
    /\ HasOverlap(STOP_SIGN)
    /\ HasOverlap(SIGNAL)
    /\ FirstEncountered(STOP_SIGN).start_s = FirstEncountered(SIGNAL).start_s
    /\ 0 < StopSignDistance
    /\ StopSignDistance <= start_stop_sign_scenario_distance
    /\ IsTrafficLightScenario(cycle.resolved)

\* C6 as stated: under Dispatch with the traffic-light feature enabled,
\* active LANE_FOLLOW, a single reference line, no stop sign and a signal
\* overlap ahead within max_valid_stop_distance, a right-turn route resolves
\* to TRAFFIC_LIGHT_UNPROTECTED_RIGHT_TURN and a straight one to
\* TRAFFIC_LIGHT_PROTECTED (refuted: the rule reads the tracked overlaps of
\* the planning context, not the frame's signal overlap).
C6_SignalAheadSelectsTrafficLight ==
    (/\ Updated
     /\ FLAGS.enable_scenario_dispatcher
     /\ FLAGS.enable_scenario_traffic_light
     /\ cycle.pre.type = LANE_FOLLOW
     /\ Len(frame.reference_line_info) = 1
     /\ ~HasOverlap(STOP_SIGN)
     /\ HasOverlap(SIGNAL)
     /\ 0 < FirstEncountered(SIGNAL).start_s - FrontLine.adc_end_s
     /\ FirstEncountered(SIGNAL).start_s - FrontLine.adc_end_s
           <= max_valid_stop_distance)
        => /\ FrontLine.path_turn_type = RIGHT_TURN
                => cycle.resolved = TRAFFIC_LIGHT_UNPROTECTED_RIGHT_TURN
           /\ FrontLine.path_turn_type = NO_TURN
                => cycle.resolved = TRAFFIC_LIGHT_PROTECTED

\* C6 amended: under Dispatch with the traffic-light feature enabled, active
\* LANE_FOLLOW, a single reference line, no stop sign, a first-encountered
\* signal overlap and a tracked signal overlap (current_traffic_light_overlaps)
\* within max_valid_stop_distance of the front edge, a right-turn route
\* resolves to TRAFFIC_LIGHT_UNPROTECTED_RIGHT_TURN and a straight one to
\* TRAFFIC_LIGHT_PROTECTED.
C6_TrackedSignalSelectsTrafficLight ==
    (/\ Updated
     /\ FLAGS.enable_scenario_dispatcher
     /\ FLAGS.enable_scenario_traffic_light
     /\ cycle.pre.type = LANE_FOLLOW
     /\ Len(frame.reference_line_info) = 1
     /\ ~HasOverlap(STOP_SIGN)
     /\ HasOverlap(SIGNAL)
     /\ TrackedInRange)
        => /\ FrontLine.path_turn_type = RIGHT_TURN
                => cycle.resolved = TRAFFIC_LIGHT_UNPROTECTED_RIGHT_TURN
           /\ FrontLine.path_turn_type = NO_TURN
                => cycle.resolved = TRAFFIC_LIGHT_PROTECTED

\* C6 witness: a right-turn route resolves to the right-turn scenario on the
\* second tracked overlap, the first being out of range
C6_Witness ==
    /\ Updated
    /\ FLAGS.enable_scenario_dispatcher
    /\ FLAGS.enable_scenario_traffic_light
    /\ cycle.pre.type = LANE_FOLLOW
    /\ Len(frame.reference_line_info) = 1
    /\ ~HasOverlap(STOP_SIGN)
    /\ HasOverlap(SIGNAL)
    /\ Len(Tracked) = 2
    /\ Tracked[1].start_s - FrontLine.adc_end_s > max_valid_stop_distance
    /\ Tracked[2].start_s - FrontLine.adc_end_s <= max_valid_stop_distance
    /\ FrontLine.path_turn_type = RIGHT_TURN
    /\ cycle.resolved = TRAFFIC_LIGHT_UNPROTECTED_RIGHT_TURN
    /\ current_scenario_.type = TRAFFIC_LIGHT_UNPROTECTED_RIGHT_TURN

\* C7: after Observe the traffic-light map is empty whenever the detection
\* message is absent or its timestamp is older than the clock by more than
\* signal_expire_time_sec_, and it is non-empty only when the message is
\* present and not that old.
C7_StaleOrAbsentLeavesMapEmpty ==
    Updated =>
        LET detection == frame.traffic_light
            stale == now - detection.timestamp_sec > signal_expire_time_sec_
            populated == DOMAIN scenario_info.traffic_lights # {}
        IN  /\ (detection = NoDetection \/ stale) => ~populated
            /\ populated => (detection # NoDetection /\ ~stale)

\* C8: a cycle whose active scenario is a stop-sign variant and which
\* resolves to LANE_FOLLOW ends with stop_done_overlap_ids empty.
C8_StopSignToLaneFollowClears ==
    (/\ Updated
     /\ IsStopSignScenario(cycle.pre.type)
     /\ cycle.resolved = LANE_FOLLOW)
        => scenario_info.stop_done_overlap_ids = {}

\* C9: after every Update, under either strategy, an active scenario that is
\* neither a stop-sign nor a traffic-light variant comes with
\* stop_done_overlap_ids empty.
C9_DoneIdsEmptyOutsideIntersections ==
    (/\ Updated
     /\ current_scenario_ # NoScenario
     /\ ~IsStopSignScenario(current_scenario_.type)
     /\ ~IsTrafficLightScenario(current_scenario_.type))
        => scenario_info.stop_done_overlap_ids = {}

\* C10: a self-vote cycle makes at most N probes for N supported types
\* (the reuse probe included), probes no type twice, and ends with an active
\* scenario decided.
C10_SelfVoteBoundedAndDecides ==
    (/\ pc = "updated"
     /\ ~FLAGS.enable_scenario_dispatcher
     /\ Len(frame.reference_line_info) >= 1)
        => /\ Len(cycle.probes) <= Cardinality(supported_scenarios_)
           /\ \A i, j \in DOMAIN cycle.probes :
                 i # j => cycle.probes[i] # cycle.probes[j]
           /\ cycle.completed
           /\ alive
           /\ current_scenario_ # NoScenario

\* C11: an Update on a frame without reference lines fails fatally with
\* nothing changed: the active scenario and the planning context, the
\* traffic-light map included, are those from before the call.
C11_EmptyFrameChangesNothing ==
    (pc = "updated" /\ Len(frame.reference_line_info) = 0)
        => /\ ~alive
           /\ ~cycle.completed
           /\ current_scenario_ = cycle.pre
           /\ scenario_info = cycle.pre_info

\* C11 witness: the failing call carried a detection message that differs
\* from the map left by the cycle before, on an already processed scenario
C11_Witness ==
    /\ pc = "updated"
    /\ Len(frame.reference_line_info) = 0
    /\ ~alive
    /\ frame.traffic_light # NoDetection
    /\ DOMAIN cycle.pre_info.traffic_lights # {}
    /\ Len(frame.traffic_light.traffic_light) = 0
    /\ cycle.pre.processed
    /\ scenario_info = cycle.pre_info

\* the fatal failure the factory is specified to end in
FatalFailure == [fatal |-> TRUE]

\* C12: for every type the manager asks the factory for in a cycle, the
\* factory fails fatally if no configuration is registered for the type
\* (it returns neither a scenario nor null), and returns a running scenario
\* of exactly that type otherwise (refuted: it returns nullptr).
C12_CreateFailsFatallyWithoutConfig ==
    pc = "updated" =>
        \A i \in DOMAIN cycle.probes :
            LET scenario_type == cycle.probes[i]
                made == CreateScenario(scenario_type)
            IN  IF scenario_type \in RegisteredScenarios
                THEN /\ made # NoScenario
                     /\ made.type = scenario_type
                     /\ made.status = STATUS_RUNNING
                ELSE made = FatalFailure

\* a self-vote cycle on a frame with a reference line
SelfVoteCycle ==
    /\ pc = "updated"
    /\ ~FLAGS.enable_scenario_dispatcher
    /\ Len(frame.reference_line_info) >= 1

\* C13: under self-vote, an active scenario that is not of the default type
\* and is transferable from itself stays the active instance, and the cycle
\* constructs and probes no other candidate.
C13_ReusableScenarioKept ==
    (/\ SelfVoteCycle
     /\ cycle.pre.type # LANE_FOLLOW
     /\ frame.self_transferable)
        => /\ cycle.completed
           /\ alive
           /\ current_scenario_ = cycle.pre
           /\ ~cycle.replaced
           /\ cycle.probes = << cycle.pre.type >>

\* C13 witness: a SIDE_PASS scenario that already ran is kept although the
\* frame has overlaps and other types are transferable
C13_Witness ==
    /\ SelfVoteCycle
    /\ cycle.pre.type = SIDE_PASS
    /\ cycle.pre.processed
    /\ frame.self_transferable
    /\ LANE_FOLLOW \in frame.transferable
    /\ Len(FrontLine.first_encountered_overlaps) >= 2
    /\ current_scenario_ = cycle.pre
    /\ cycle.probes = << SIDE_PASS >>

\* the candidates of one overlap category, in the stated order
CandidatesOf(cat) ==
    IF cat = OBSTACLE THEN << SIDE_PASS >>
    ELSE IF cat = STOP_SIGN THEN << STOP_SIGN_UNPROTECTED >>
    ELSE IF cat = SIGNAL
    THEN << TRAFFIC_LIGHT_PROTECTED, TRAFFIC_LIGHT_UNPROTECTED_LEFT_TURN,
            TRAFFIC_LIGHT_UNPROTECTED_RIGHT_TURN >>
    ELSE << >>

\* the candidates of the overlaps from the i-th on
RECURSIVE CandidatesFrom(_)
CandidatesFrom(i) ==
    IF i > Len(FrontLine.first_encountered_overlaps) THEN << >>
    ELSE CandidatesOf(FrontLine.first_encountered_overlaps[i].first)
             \o CandidatesFrom(i + 1)

\* the stated order of candidates of the cycle's frame
StatedOrder == << LANE_FOLLOW >> \o CandidatesFrom(1)

\* a candidate the walk may probe: supported and not the active type
Eligible(t) == t \in supported_scenarios_ /\ t # cycle.pre.type

\* step 1 of the self-vote cycle did not keep the active scenario
NotReused == ~(cycle.pre.type # LANE_FOLLOW /\ frame.self_transferable)

\* the probes of the cycle after the reuse probe
WalkProbes ==
    IF cycle.pre.type # LANE_FOLLOW
    THEN SubSeq(cycle.probes, 2, Len(cycle.probes))
    ELSE cycle.probes

\* C14: under self-vote, when the active scenario is not kept, the first
\* type of the stated order that is supported, is not the active type and is
\* transferable becomes active, after probing exactly the eligible types
\* ahead of it and none behind it.
C14_FirstPreferredAccepted ==
    (SelfVoteCycle /\ NotReused) =>
        \A k \in DOMAIN StatedOrder :
            (/\ Eligible(StatedOrder[k])
             /\ StatedOrder[k] \in frame.transferable
             /\ \A j \in 1..(k - 1) :
                   ~(Eligible(StatedOrder[j])
                       /\ StatedOrder[j] \in frame.transferable))
                => /\ cycle.completed
                   /\ alive
                   /\ cycle.replaced
                   /\ current_scenario_ = CreateScenario(StatedOrder[k])
                   /\ WalkProbes =
                         SelectSeq(SubSeq(StatedOrder, 1, k), Eligible)

\* C14 witness: the third probe of the walk is accepted, a right-turn
\* traffic-light scenario behind a rejected SIDE_PASS and a rejected
\* TRAFFIC_LIGHT_PROTECTED
C14_Witness ==
    /\ SelfVoteCycle
    /\ NotReused
    /\ alive
    /\ Len(WalkProbes) = 3
    /\ WalkProbes[1] = SIDE_PASS
    /\ WalkProbes[2] = TRAFFIC_LIGHT_PROTECTED
    /\ current_scenario_.type = TRAFFIC_LIGHT_UNPROTECTED_RIGHT_TURN
    /\ cycle.replaced

\* no probe of the walk was accepted: the cycle ran to its end, each probed
\* type was not transferable, and no null scenario was installed
NothingAccepted ==
    /\ cycle.completed
    /\ current_scenario_ # NoScenario
    /\ \A i \in DOMAIN WalkProbes : WalkProbes[i] \notin frame.transferable

\* C15: under self-vote, a cycle in which neither the preferred list nor
\* the supported set yields an accepted candidate ends with LANE_FOLLOW
\* active whether or not LANE_FOLLOW is transferable or supported: a new
\* instance if the active type was another one, the same instance otherwise.
C15_DefaultFallback ==
    (SelfVoteCycle /\ NotReused /\ NothingAccepted)
        => /\ alive
           /\ current_scenario_.type = LANE_FOLLOW
           /\ IF cycle.pre.type # LANE_FOLLOW
              THEN /\ current_scenario_ = CreateScenario(LANE_FOLLOW)
                   /\ cycle.replaced
              ELSE /\ current_scenario_ = cycle.pre
                   /\ ~cycle.replaced

\* C15 witness: LANE_FOLLOW was probed and rejected in the walk, and is
\* installed all the same in place of a scenario that already ran
C15_Witness ==
    /\ SelfVoteCycle
    /\ NotReused
    /\ NothingAccepted
    /\ cycle.pre.type # LANE_FOLLOW
    /\ cycle.pre.processed
    /\ \E i \in DOMAIN WalkProbes : WalkProbes[i] = LANE_FOLLOW
    /\ Len(WalkProbes) >= 2
    /\ current_scenario_ = CreateScenario(LANE_FOLLOW)

\* the types the Dispatch strategy is stated never to make active
NeverDispatched ==
    {STOP_SIGN_PROTECTED, TRAFFIC_LIGHT_UNPROTECTED_LEFT_TURN, CHANGE_LANE,
     APPROACH}

\* no maneuver is in progress at the start of the cycle
NoManeuver ==
    \/ cycle.pre.type = LANE_FOLLOW
    \/ cycle.pre.type = SIDE_PASS /\ cycle.pre.status = STATUS_DONE

\* C16: under Dispatch the active scenario is never STOP_SIGN_PROTECTED,
\* TRAFFIC_LIGHT_UNPROTECTED_LEFT_TURN, CHANGE_LANE or APPROACH: a left-turn
\* route with a signal in range resolves to TRAFFIC_LIGHT_PROTECTED, a stop
\* sign in range to STOP_SIGN_UNPROTECTED, and a frame with several
\* reference lines resolves as one with a single line does.
C16_NeverDispatchedTypes ==
    FLAGS.enable_scenario_dispatcher =>
        /\ current_scenario_ # NoScenario
        /\ current_scenario_.type \notin NeverDispatched
        /\ Updated =>
             /\ cycle.resolved \notin NeverDispatched
             /\ (/\ NoManeuver
                 /\ FLAGS.enable_scenario_traffic_light
                 /\ HasOverlap(SIGNAL)
                 /\ ~StopSignWins
                 /\ TrackedInRange
                 /\ FrontLine.path_turn_type = LEFT_TURN)
                   => cycle.resolved = TRAFFIC_LIGHT_PROTECTED
             /\ (/\ NoManeuver
                 /\ FLAGS.enable_scenario_stop_sign
                 /\ StopSignWins
                 /\ 0 < StopSignDistance
                 /\ StopSignDistance <= start_stop_sign_scenario_distance)
                   => cycle.resolved = STOP_SIGN_UNPROTECTED
             /\ (NoManeuver /\ Len(frame.reference_line_info) > 1)
                   => cycle.resolved \in {LANE_FOLLOW, SIDE_PASS}

\* C16 witness: a left-turn route with a tracked signal in range made
\* TRAFFIC_LIGHT_PROTECTED active
C16_Witness ==
    /\ Updated
    /\ FLAGS.enable_scenario_dispatcher
    /\ cycle.pre.type = LANE_FOLLOW
    /\ HasOverlap(SIGNAL)
    /\ TrackedInRange
    /\ FrontLine.path_turn_type = LEFT_TURN
    /\ cycle.resolved = TRAFFIC_LIGHT_PROTECTED
    /\ current_scenario_ = CreateScenario(TRAFFIC_LIGHT_PROTECTED)

\* the candidate of a Dispatch cycle is still LANE_FOLLOW after the sticky,
\* intersection and lane-change steps
StillLaneFollow ==
    /\ Updated
    /\ FLAGS.enable_scenario_dispatcher
    /\ StickyScenarioType(cycle.pre) = LANE_FOLLOW
    /\ IntersectionScenarioType(cycle.pre, frame, cycle.pre_info, FLAGS)
          = LANE_FOLLOW
    /\ SelectChangeLaneScenario(frame) = LANE_FOLLOW

\* the active scenario is SIDE_PASS and transferable from itself
SidePassReusable ==
    cycle.pre.type = SIDE_PASS /\ frame.self_transferable

\* C17: under Dispatch with the candidate still LANE_FOLLOW, the cycle
\* resolves to SIDE_PASS if the active scenario is a SIDE_PASS transferable
\* from itself, or else if a trial SIDE_PASS is transferable from the active
\* scenario, and to LANE_FOLLOW otherwise; the trial is built only in the
\* second case and never becomes the active scenario, which the probe leaves
\* as it was.
C17_SidePassStep ==
    StillLaneFollow =>
        /\ cycle.resolved =
              IF SidePassReusable \/ SIDE_PASS \in frame.transferable
              THEN SIDE_PASS ELSE LANE_FOLLOW
        /\ cycle.trial <=> ~SidePassReusable
        /\ cycle.probes = IF SidePassReusable THEN << >> ELSE << SIDE_PASS >>
        /\ IF cycle.resolved = cycle.pre.type
           THEN current_scenario_ = cycle.pre /\ ~cycle.replaced
           ELSE current_scenario_ = CreateScenario(cycle.resolved)

\* C17 witness: a finished SIDE_PASS that is not transferable from itself
\* stays active, untouched, because the trial SIDE_PASS is transferable
C17_Witness ==
    /\ StillLaneFollow
    /\ cycle.pre.type = SIDE_PASS
    /\ cycle.pre.status = STATUS_DONE
    /\ ~frame.self_transferable
    /\ SIDE_PASS \in frame.transferable
    /\ cycle.trial
    /\ cycle.resolved = SIDE_PASS
    /\ current_scenario_ = cycle.pre

\* the entries of the front line's stop-sign-overlap list with the id the
\* planning context held when the cycle started
SameIdEntries ==
    { i \in DOMAIN FrontLine.stop_sign_overlaps :
        FrontLine.stop_sign_overlaps[i].object_id
            = cycle.pre_info.current_stop_sign_overlap.object_id }

\* C18: under Dispatch, the cycle that enters a stop-sign scenario stores
\* the first-encountered stop-sign overlap as current_stop_sign_overlap; a
\* cycle that continues the scenario keeps the object_id and takes the
\* position of the entry with that id in the reference line's
\* stop-sign-overlap list, or leaves the overlap as it was if there is none.
C18_CurrentStopSignOverlap ==
    (/\ Updated
     /\ FLAGS.enable_scenario_dispatcher
     /\ IsStopSignScenario(cycle.resolved))
        => IF cycle.resolved # cycle.pre.type
           THEN /\ HasOverlap(STOP_SIGN)
                /\ scenario_info.current_stop_sign_overlap
                      = FirstEncountered(STOP_SIGN)
           ELSE /\ scenario_info.current_stop_sign_overlap.object_id
                      = cycle.pre_info.current_stop_sign_overlap.object_id
                /\ IF SameIdEntries = {}
                   THEN scenario_info.current_stop_sign_overlap
                           = cycle.pre_info.current_stop_sign_overlap
                   ELSE \E i \in SameIdEntries :
                           scenario_info.current_stop_sign_overlap
                               = FrontLine.stop_sign_overlaps[i]

\* C18 witness: a continued stop-sign scenario finds its overlap second in
\* the list, at a new position
C18_Witness ==
    /\ Updated
    /\ FLAGS.enable_scenario_dispatcher
    /\ IsStopSignScenario(cycle.resolved)
    /\ cycle.resolved = cycle.pre.type
    /\ cycle.pre.processed
    /\ Len(FrontLine.stop_sign_overlaps) = 2
    /\ FrontLine.stop_sign_overlaps[1].object_id
          # cycle.pre_info.current_stop_sign_overlap.object_id
    /\ scenario_info.current_stop_sign_overlap = FrontLine.stop_sign_overlaps[2]
    /\ scenario_info.current_stop_sign_overlap.start_s
          # cycle.pre_info.current_stop_sign_overlap.start_s

\* the lights of the cycle's detection message
MessageLights == frame.traffic_light.traffic_light

\* C19: after every Update that got past its reference-line check, also one
\* whose selection strategy failed afterwards, the traffic-light map holds
\* nothing of an earlier cycle: it is empty, or its keys are exactly the
\* light ids of this cycle's detection message, each with the state the
\* message reports last for that id.
C19_MapFullyReplaced ==
    (pc = "updated" /\ Len(frame.reference_line_info) >= 1)
        => \/ DOMAIN scenario_info.traffic_lights = {}
           \/ /\ frame.traffic_light # NoDetection
              /\ DOMAIN scenario_info.traffic_lights
                    = { MessageLights[i].id : i \in DOMAIN MessageLights }
              /\ \A i \in DOMAIN MessageLights :
                    (\A j \in DOMAIN MessageLights :
                        j > i => MessageLights[j].id # MessageLights[i].id)
                      => scenario_info.traffic_lights[MessageLights[i].id]
                            = MessageLights[i].color

\* C19 witness: a one-light message replaces a map of two lights, in a
\* cycle whose strategy died after Observe
C19_Witness ==
    /\ pc = "updated"
    /\ Len(frame.reference_line_info) >= 1
    /\ ~cycle.completed
    /\ Cardinality(DOMAIN cycle.pre_info.traffic_lights) = 2
    /\ frame.traffic_light # NoDetection
    /\ Len(MessageLights) = 1
    /\ DOMAIN scenario_info.traffic_lights = { MessageLights[1].id }

\* C20: under Dispatch, a stop-sign or traffic-light scenario that is DONE
\* at the start of a cycle is replaced in that cycle: the cycle does not
\* resolve to its type again (refuted: the intersection rules answer with
\* the active type when the other kind of overlap wins or none is in range).
C20_DoneScenarioReplaced ==
    (/\ Updated
     /\ FLAGS.enable_scenario_dispatcher
     /\ IsStopSignScenario(cycle.pre.type)
           \/ IsTrafficLightScenario(cycle.pre.type)
     /\ cycle.pre.status = STATUS_DONE)
        => /\ cycle.resolved # cycle.pre.type
           /\ cycle.replaced
           /\ current_scenario_ # cycle.pre

\* the feature flag that owns a scenario type is disabled
FeatureDisabled(t) ==
    \/ t = SIDE_PASS /\ ~FLAGS.enable_scenario_side_pass
    \/ t \in {STOP_SIGN_PROTECTED, STOP_SIGN_UNPROTECTED}
          /\ ~FLAGS.enable_scenario_stop_sign
    \/ t \in {TRAFFIC_LIGHT_PROTECTED, TRAFFIC_LIGHT_UNPROTECTED_LEFT_TURN,
              TRAFFIC_LIGHT_UNPROTECTED_RIGHT_TURN}
          /\ ~FLAGS.enable_scenario_traffic_light

\* C21: under either strategy no Update makes a scenario active whose
\* feature flag is disabled (refuted: the preferred-list loop of the
\* self-vote strategy and the side-pass step of Dispatch test no flag).
C21_DisabledFeatureNeverActive ==
    (Updated /\ current_scenario_ # NoScenario)
        => ~FeatureDisabled(current_scenario_.type)

\* C22: after Init and after every Update, under either strategy, the
\* active scenario is of the default type or of a type of the supported set
\* given to Init (refuted: ScenarioDispatch never reads the supported set).
C22_ActiveTypeSupported ==
    (/\ alive
     /\ pc = "idle" \/ Updated
     /\ current_scenario_ # NoScenario)
        => current_scenario_.type \in supported_scenarios_ \cup {LANE_FOLLOW}

\* C23: under Dispatch, a cycle that starts in LANE_FOLLOW resolves to a
\* traffic-light scenario only if some tracked signal overlap is still ahead
\* of the vehicle front edge, start_s - adc_end_s > 0 (refuted: the
\* traffic-light rule has an upper bound on the distance and no lower one).
C23_TrafficLightOnlyAhead ==
    (/\ Updated
     /\ FLAGS.enable_scenario_dispatcher
     /\ cycle.pre.type = LANE_FOLLOW
     /\ IsTrafficLightScenario(cycle.resolved))
        => \E i \in DOMAIN Tracked :
               Tracked[i].start_s - FrontLine.adc_end_s > 0

\* C24: under Dispatch, while one stop sign stays the first-encountered stop
\* sign, a cycle that starts in LANE_FOLLOW after the stop-sign scenario that
\* serviced that overlap id was completed and replaced does not resolve to a
\* stop-sign scenario again (refuted: the stop-sign rule reads the distance
\* only, and the completed ids are cleared when LANE_FOLLOW is resolved).
C24_NoStopSignReentry ==
    (/\ Updated
     /\ FLAGS.enable_scenario_dispatcher
     /\ cycle.pre.type = LANE_FOLLOW
     /\ HasOverlap(STOP_SIGN)
     /\ cycle.pre_info.current_stop_sign_overlap.object_id
           = FirstEncountered(STOP_SIGN).object_id)
        => ~IsStopSignScenario(cycle.resolved)

\* C25: under self-vote, a cycle makes SIDE_PASS, a stop-sign scenario or a
\* traffic-light scenario the new active scenario only if the front reference
\* line has a first-encountered overlap of the matching category, OBSTACLE,
\* STOP_SIGN or SIGNAL (refuted: the loop over the supported set probes
\* every supported type whatever the overlaps are).
C25_SelfVoteNeedsMatchingOverlap ==
    (/\ Updated
     /\ ~FLAGS.enable_scenario_dispatcher
     /\ cycle.replaced
     /\ current_scenario_ # NoScenario)
        => /\ current_scenario_.type = SIDE_PASS => HasOverlap(OBSTACLE)
           /\ IsStopSignScenario(current_scenario_.type)
                 => HasOverlap(STOP_SIGN)
           /\ IsTrafficLightScenario(current_scenario_.type)
                 => HasOverlap(SIGNAL)

====
